---- MODULE Spec2Model ----
(***************************************************************************)
(* A model of the handler-insertion session of vscode-antd-rush            *)
(* (src/src/HandlerInsert.ts): one HandlerInsert object per trigger, its   *)
(* four public methods, the suspension points of insertHandler, and the    *)
(* text buffer the session edits through the host editor.                  *)
(***************************************************************************)
EXTENDS Integers, Sequences, FiniteSets, TLC

(***************************************************************************)
(* Bounds of the model.                                                    *)
(***************************************************************************)
MaxSessions == 2      \* sessions constructed one after another on one buffer
MaxMoves == 1         \* cursor movements by the user
MaxLineLen == 2       \* leading whitespace characters of a line (indent runs)
MaxBodyLines == 2     \* body lines of a construct (indent runs)

(***************************************************************************)
(* Optional values: null / undefined is the empty tuple.                   *)
(***************************************************************************)
None == <<>>
Some(v) == <<v>>
IsNone(o) == Len(o) = 0
Val(o) == o[1]

Min(a, b) == IF a <= b THEN a ELSE b

(***************************************************************************)
(* Text.  A string is a sequence of one-character strings.                 *)
(***************************************************************************)
SP == " "
TAB == "\t"

Upper(c) ==
  CASE c = "o" -> "O"
    [] c = "h" -> "H"
    [] c = "m" -> "M"
    [] OTHER -> c

\* './insertion' addHandlerPrefix: onSelect -> handleOnSelect
addHandlerPrefix(handlerName) ==
  IF Len(handlerName) = 0
  THEN <<"h", "a", "n", "d", "l", "e">>
  ELSE <<"h", "a", "n", "d", "l", "e">> \o <<Upper(Head(handlerName))>> \o Tail(handlerName)

onSelect == <<"o", "n", "S", "e", "l", "e", "c", "t">>
onChange == <<"o", "n", "C", "h", "a", "n", "g", "e">>
HandlerNames == {onSelect, onChange}

THIS == <<"t", "h", "i", "s", ".">>
EMPTY == <<>>

\* what the user can answer to showInputBox: dismissal (undefined), the empty
\* string, a name of their own
PromptInputs == {None, Some(EMPTY), Some(<<"m", "y", "F", "n">>)}

InsertKinds == {"direct", "interactive"}

(***************************************************************************)
(* The buffer: a sequence of lines.  A line has a kind, its leading        *)
(* whitespace, and the items that follow it on the line.  A position is a  *)
(* line number and an item column, both counted from 0.                    *)
(***************************************************************************)
Line(kind, ws, items) == [kind |-> kind, ws |-> ws, items |-> items, params |-> <<>>]
Pos(l, c) == [line |-> l, col |-> c]

TagOpen == <<"<", "X">>
TagEnd == <<"/", ">">>
Trig == <<"#">>

Markup(ws, handlerName) == Line("markup", ws, <<TagOpen, handlerName, Trig, TagEnd>>)

BodyIndents == {<<SP, SP>>, <<TAB>>}

ClassDoc(ws, hn) == <<Line("classOpen", <<>>, <<>>), Markup(ws, hn), Line("close", <<>>, <<>>)>>
FuncDoc(ws, hn) == <<Line("funcOpen", <<>>, <<>>), Markup(ws, hn), Line("close", <<>>, <<>>)>>
BareDoc(hn) == <<Markup(<<>>, hn)>>
\* a variable statement inside a method of a class component
NestedDoc(ws, hn) ==
  <<Line("classOpen", <<>>, <<>>), Line("funcOpen", ws, <<>>), Markup(ws \o ws, hn),
    Line("close", ws, <<>>), Line("close", <<>>, <<>>)>>

Documents(hn) ==
  {ClassDoc(ws, hn) : ws \in BodyIndents} \cup {FuncDoc(ws, hn) : ws \in BodyIndents}
    \cup {BareDoc(hn), NestedDoc(<<SP, SP>>, hn)}

\* line.text of TextDocument.lineAt
LineText(row) == IF row.kind = "blank" THEN row.ws ELSE row.ws \o <<"x">>

InsertAt(seq, k, e) == SubSeq(seq, 1, k) \o <<e>> \o SubSeq(seq, k + 1, Len(seq))
RemoveAt(seq, k) == SubSeq(seq, 1, k - 1) \o SubSeq(seq, k + 1, Len(seq))

\* the line (from 0) of the markup line that carries the attribute
MarkupLine(buf) == CHOOSE l \in 0..(Len(buf) - 1) : buf[l + 1].kind = "markup"

EditorOptions ==
  {[insertSpaces |-> TRUE, tabSize |-> 4], [insertSpaces |-> FALSE, tabSize |-> 4]}

IndentOptions == EditorOptions \cup {[insertSpaces |-> TRUE, tabSize |-> 2]}

(***************************************************************************)
(* Indentation (countIndentsOfLine, countIndentsInNode).                   *)
(***************************************************************************)
IsSpaceChar(c) == c = SP \/ c = TAB

\* line.search(/\S/): index (from 0) of the first non-whitespace character
\* at or after index i, -1 when there is none
RECURSIVE SearchNonSpace(_, _)
SearchNonSpace(line, i) ==
  IF i >= Len(line) THEN -1
  ELSE IF ~IsSpaceChar(line[i + 1]) THEN i
  ELSE SearchNonSpace(line, i + 1)

\* line.substring(0, n).split(/\t/).length - 1
RECURSIVE NumberOfTabs(_)
NumberOfTabs(prefix) ==
  IF Len(prefix) = 0 THEN 0
  ELSE (IF Head(prefix) = TAB THEN 1 ELSE 0) + NumberOfTabs(Tail(prefix))

\* (line.substring(0, n).match(/[^\t]+/g) || []).length: the maximal runs of
\* characters other than a tab
RECURSIVE NonTabRuns(_)
NonTabRuns(prefix) ==
  IF Len(prefix) = 0 THEN 0
  ELSE IF Head(prefix) = TAB THEN NonTabRuns(Tail(prefix))
  ELSE IF Len(prefix) >= 2 /\ prefix[2] # TAB THEN NonTabRuns(Tail(prefix))
  ELSE 1 + NonTabRuns(Tail(prefix))

countIndentsOfLine(line, opts) ==
  LET indentCount == SearchNonSpace(line, 0)
  IN IF indentCount = -1 THEN -1
     ELSE IF opts.insertSpaces
          THEN indentCount
                 + NumberOfTabs(SubSeq(line, 1, indentCount)) * (opts.tabSize - 1)
          ELSE indentCount - NonTabRuns(SubSeq(line, 1, indentCount))

IndentStepMax(nodeBodyIndent, indentCount) ==
  IF nodeBodyIndent = 0 /\ indentCount > 0 THEN indentCount
  ELSE IF indentCount > 0
       THEN (IF nodeBodyIndent >= indentCount THEN nodeBodyIndent ELSE indentCount)
       ELSE nodeBodyIndent

\* one iteration of the loop of countIndentsInNode
IndentStep(nodeBodyIndent, indentCount) ==
  IF nodeBodyIndent = 0 /\ indentCount > 0 THEN indentCount
  ELSE IF indentCount > 0 THEN Min(nodeBodyIndent, indentCount)
  ELSE nodeBodyIndent

\* nodeBodyIndent after the iterations for startLine..line (lines from 0)
RECURSIVE IndentUpTo(_, _, _, _)
IndentUpTo(buf, startLine, line, opts) ==
  IF line < startLine THEN 0
  ELSE IndentStep(IndentUpTo(buf, startLine, line - 1, opts),
                  countIndentsOfLine(LineText(buf[line + 1]), opts))

\* a located node: the lines of document.positionAt(node.pos) and
\* document.positionAt(node.end)
Node(form, posLine, endLine) == [form |-> form, posLine |-> posLine, endLine |-> endLine]

countIndentsInNode(node, buf, opts) ==
  IndentUpTo(buf, node.posLine + 1, node.endLine, opts)

(***************************************************************************)
(* Services the session consumes.                                          *)
(***************************************************************************)
Max(S) == CHOOSE x \in S : \A y \in S : y <= x
Least(S) == CHOOSE x \in S : \A y \in S : x <= y

\* './ast' getComponentElement: the construct opened by a line of kind
\* `open` that encloses the position, or null
IsOpen(row) == row.kind \in {"classOpen", "funcOpen"}

\* the line closing the construct whose body is being read at line l with
\* `depth` constructs open inside it; -1 when the text ends first
RECURSIVE ClosingLine(_, _, _)
ClosingLine(buf, l, depth) ==
  IF l >= Len(buf) THEN -1
  ELSE IF IsOpen(buf[l + 1]) THEN ClosingLine(buf, l + 1, depth + 1)
  ELSE IF buf[l + 1].kind = "close"
       THEN (IF depth = 0 THEN l ELSE ClosingLine(buf, l + 1, depth - 1))
       ELSE ClosingLine(buf, l + 1, depth)

getComponentElement(buf, position, open) ==
  LET around == {l \in 0..(Len(buf) - 1) :
                   /\ buf[l + 1].kind = open
                   /\ l <= position.line
                   /\ position.line <= ClosingLine(buf, l + 1, 0)}
  IN IF around = {} THEN None
     ELSE Some(Node(open, Max(around), ClosingLine(buf, Max(around) + 1, 0)))

\* the declaration texts a definition can span, and './ast' buildTsFromDts
DeclTexts == {"(checked: boolean) => void", "() => void", "not a signature"}

buildTsFromDts(definitionString) ==
  CASE definitionString = "(checked: boolean) => void"
         -> Some(<<[name |-> "checked", type |-> "boolean"]>>)
    [] definitionString = "() => void" -> Some(<<>>)
    [] OTHER -> None

Location(path, text) == [path |-> path, text |-> text]

\* './utils' matchAntdModule
matchAntdModule(path) == path = "node_modules/antd"

\* what vscode.executeDefinitionProvider can answer: undefined, or a list
DefinitionResults ==
  {None, Some(<<>>), Some(<<Location("src/local", "() => void")>>)}
    \cup {Some(<<Location("src/local", "() => void"), Location("node_modules/antd", d)>>) :
            d \in DeclTexts}

FindFirst(definitions) ==
  IF Len(definitions) = 0 THEN None ELSE Some(Head(definitions))

\* definitions.find(d => matchAntdModule(d.uri.path))
RECURSIVE FindAntd(_)
FindAntd(definitions) ==
  IF Len(definitions) = 0 THEN None
  ELSE IF matchAntdModule(Head(definitions).path) THEN Some(Head(definitions))
  ELSE FindAntd(Tail(definitions))

Spaces(n) == [i \in 1..n |-> SP]

\* the row './ast' insertStringToClassComponent / insertStringToFunctionalComponent
\* writes, and the line it is written at
StubRow(ws, fullHandlerName, handlerParams) ==
  [kind |-> "stub", ws |-> ws, items |-> <<fullHandlerName>>, params |-> handlerParams]

NoRow == Line("blank", <<>>, <<>>)
Edit(op, pos, item, row) == [op |-> op, pos |-> pos, item |-> item, row |-> row]

insertStringToClassComponent(buf, opts, indent, classNode, fullHandlerName, handlerParams) ==
  Edit("stub", Pos(classNode.endLine, 0), <<>>,
       StubRow(Spaces(IF indent = 0 THEN opts.tabSize ELSE indent),
               fullHandlerName, handlerParams))

insertStringToFunctionalComponent(buf, opts, indent, fnNode, fullHandlerName, handlerParams) ==
  Edit("stub", Pos(fnNode.posLine, 0), <<>>,
       StubRow(IF fnNode.posLine < Len(buf) THEN buf[fnNode.posLine + 1].ws ELSE <<>>,
               fullHandlerName, handlerParams))

\* the host applying one edit to the buffer (positions are clamped to the text)
ApplyTo(buf, e) ==
  LET l == Min(e.pos.line, Len(buf) - 1)
      row == buf[l + 1]
  IN CASE e.op = "clean" ->
            IF e.pos.line < Len(buf) /\ e.pos.col < Len(row.items)
            THEN [buf EXCEPT ![l + 1].items = RemoveAt(row.items, e.pos.col + 1)]
            ELSE buf
       [] e.op = "bind" ->
            [buf EXCEPT ![l + 1].items = InsertAt(row.items, Min(e.pos.col, Len(row.items)), e.item)]
       [] OTHER -> InsertAt(buf, Min(e.pos.line, Len(buf)), e.row)

\* the selection follows the text around it
CursorAfter(cur, buf, e) ==
  CASE e.op = "clean" ->
         IF cur.line = e.pos.line /\ cur.col > e.pos.col THEN Pos(cur.line, cur.col - 1) ELSE cur
    [] e.op = "bind" ->
         IF cur.line = Min(e.pos.line, Len(buf) - 1) /\ cur.col >= e.pos.col
         THEN Pos(cur.line, cur.col + 1) ELSE cur
    [] OTHER -> IF cur.line >= e.pos.line THEN Pos(cur.line + 1, cur.col) ELSE cur

\* where the user puts the cursor: the start of the text, the end of the text
CursorTargets(buf) == {Pos(0, 0), Pos(Len(buf) - 1, Len(buf[Len(buf)].items))}

(***************************************************************************)
(* State.                                                                  *)
(***************************************************************************)
VARIABLES
  buffer,      \* the text of the document
  buffer0,     \* the text when the session was constructed
  cursor,      \* editor.selection.active
  options,     \* editor.options
  pending,     \* edits handed to the host and not yet applied
  this,        \* the fields of the HandlerInsert object
  ih,          \* insertHandler: where it is suspended, and its locals
  prompt,      \* tryRiseInputBox: "idle", "pending" (input box open), "done"
  userInput,   \* what the input box returned, once it has
  cleaned,     \* cleanCompletionPrefix has been invoked
  filled,      \* tryFillCompletionBind has been invoked
  calls,       \* the calls of insertStringTo...Component made by the session
  bindEdit,    \* the editor.edit call of tryFillCompletionBind, once made
  sessions,    \* sessions constructed so far
  inserted,    \* sessions that called a stub insertion so far
  moves,       \* cursor movements so far
  scan,        \* countIndentsInNode run on its own: its loop variables
  version,     \* document.version: edits applied since the session was constructed
  sha,         \* fetchDocs buildShaMap: its requests and the map it fills
  dl           \* fetchDocs downloadByShaMap: its promises and their requests

vars ==
  <<buffer, buffer0, cursor, options, pending, this, ih, prompt, userInput, cleaned,
    filled, calls, bindEdit, sessions, inserted, moves, scan, version, sha, dl>>

(***************************************************************************)
(* Construction.                                                           *)
(***************************************************************************)
Range(l, c) == [start |-> Pos(l, c), end |-> Pos(l, c + 1)]

\* the caller derives the bind object from the form of the target
CallerBindObject(buf, position) ==
  IF ~IsNone(getComponentElement(buf, position, "classOpen")) THEN THIS ELSE EMPTY

Constructor(sharpSymbolRange, handlerName, insertKind, handlerObject) ==
  [triggerCharRange |-> sharpSymbolRange,
   handlerName |-> handlerName,
   fullHandlerName |-> addHandlerPrefix(handlerName),
   insertKind |-> insertKind,
   handlerBindObject |-> handlerObject]

\* what insertHandler has asked of the host and got back, in order
Issued(req) == [req |-> req, ev |-> "issued"]
Returned(req) == [req |-> req, ev |-> "returned"]
Failed(req) == [req |-> req, ev |-> "failed"]
Called(fn) == [req |-> fn, ev |-> "called"]

(***************************************************************************)
(* build-resource/fetchDocs: what the repository host can answer.          *)
(***************************************************************************)
IGNORED_COMPONENTS ==
  {"__tests__", "_util", "locale", "style", "version", "col", "row", "locale-provider"}

\* './constant' ANTD_GITHUB.EN_MD_NAME, ANTD_GITHUB.ZH_MD_NAME
EN_MD_NAME == "index.en-US.md"
ZH_MD_NAME == "index.zh-CN.md"

\* names a listing of /components can hold
ContentNames == {"alert", "button", "card", "col"}
FileNames == {EN_MD_NAME, ZH_MD_NAME}

File(component, name) == [name |-> name, sha |-> <<component, name>>]
NoRes == [kind |-> "none", data |-> {}]
ErrorRes == [kind |-> "error", data |-> {}]
ObjectRes == [kind |-> "object", data |-> {}]
ArrayRes(data) == [kind |-> "array", data |-> data]

\* answers to getContents of /components/<name>: a rejection, the object of a
\* single file, or the array of a folder
FolderResponses(name) ==
  {ErrorRes, ObjectRes} \cup {ArrayRes({File(name, f) : f \in fs}) : fs \in SUBSET FileNames}

\* answers to getContents of /components
RootResponses == {ErrorRes, ObjectRes} \cup {ArrayRes(cs) : cs \in SUBSET ContentNames}

ShaIdle ==
  [pc |-> "idle", contentData |-> {}, waiting |-> {},
   folderRes |-> [n \in ContentNames |-> NoRes],
   shaMap |-> [n \in ContentNames |-> None],
   result |-> None]

\* component names a sha map handed to downloadByShaMap can hold
MapNames == {"alert", "button", "card"}
Langs == {"en", "zh"}

DlIdle ==
  [pc |-> "idle", shaMap |-> {}, promises |-> {},
   stage |-> [n \in MapNames |-> "none"],
   status |-> [n \in MapNames |-> [l \in Langs |-> "none"]],
   attempts |-> [n \in MapNames |-> [l \in Langs |-> 0]]]

IhIdle ==
  [pc |-> "idle", classComponent |-> None, functionalComponent |-> None,
   functionParams |-> None, antdDefinition |-> None, indent |-> None,
   log |-> <<>>, version |-> 0]

ScanIdle == [on |-> FALSE, line |-> 0, nodeBodyIndent |-> 0, indentCount |-> 0,
             before |-> 0, returned |-> FALSE]

Init ==
  \E hn \in HandlerNames, kind \in InsertKinds, opts \in EditorOptions :
    \E doc \in Documents(hn) :
      LET range == Range(MarkupLine(doc), 2)
      IN /\ buffer = doc
         /\ buffer0 = doc
         /\ cursor = range.end
         /\ options = opts
         /\ pending = <<>>
         /\ this = Constructor(range, hn, kind, CallerBindObject(doc, range.end))
         /\ ih = IhIdle
         /\ prompt = "idle"
         /\ userInput = None
         /\ cleaned = FALSE
         /\ filled = FALSE
         /\ calls = <<>>
         /\ bindEdit = None
         /\ sessions = 1
         /\ inserted = 0
         /\ moves = 0
         /\ scan = ScanIdle
         /\ version = 0
         /\ sha = ShaIdle
         /\ dl = DlIdle

(***************************************************************************)
(* tryRiseInputBox                                                         *)
(***************************************************************************)
TryRiseInputBox ==
  /\ prompt = "idle"
  /\ prompt' = IF this.insertKind = "direct" THEN "done" ELSE "pending"
  /\ UNCHANGED <<buffer, buffer0, cursor, options, pending, this, ih, userInput, cleaned,
                 filled, calls, bindEdit, sessions, inserted, moves, scan, version, sha, dl>>

ChosenNameRaw(fullHandlerNameInput, handlerName) ==
  IF IsNone(fullHandlerNameInput) THEN addHandlerPrefix(handlerName)
  ELSE Val(fullHandlerNameInput)

\* fullHandlerNameInput || addHandlerPrefix(this.handlerName)
ChosenName(fullHandlerNameInput, handlerName) ==
  IF IsNone(fullHandlerNameInput) \/ Val(fullHandlerNameInput) = EMPTY
  THEN addHandlerPrefix(handlerName)
  ELSE Val(fullHandlerNameInput)

InputBoxReturns ==
  /\ prompt = "pending"
  /\ \E fullHandlerNameInput \in PromptInputs :
       /\ this' = [this EXCEPT
                     !.fullHandlerName = ChosenName(fullHandlerNameInput, this.handlerName)]
       /\ userInput' = Some(fullHandlerNameInput)
  /\ prompt' = "done"
  /\ UNCHANGED <<buffer, buffer0, cursor, options, pending, ih, cleaned, filled, calls,
                 bindEdit, sessions, inserted, moves, scan, version, sha, dl>>

(***************************************************************************)
(* cleanCompletionPrefix, tryFillCompletionBind                            *)
(***************************************************************************)
CleanCompletionPrefix ==
  /\ ~cleaned
  /\ cleaned' = TRUE
  /\ pending' = Append(pending, Edit("clean", this.triggerCharRange.start, <<>>, NoRow))
  /\ UNCHANGED <<buffer, buffer0, cursor, options, this, ih, prompt, userInput, filled,
                 calls, bindEdit, sessions, inserted, moves, scan, version, sha, dl>>

SuffixDefault(handlerBindObject, fullHandlerName) ==
  <<"=", "{">> \o handlerBindObject \o addHandlerPrefix(this.handlerName) \o <<"}">>

\* `={${this.handlerBindObject}${this.fullHandlerName}}`
Suffix(handlerBindObject, fullHandlerName) ==
  <<"=", "{">> \o handlerBindObject \o fullHandlerName \o <<"}">>

TryFillCompletionBind ==
  /\ ~filled
  /\ filled' = TRUE
  /\ IF this.insertKind = "direct"
     THEN UNCHANGED <<pending, bindEdit>>
     ELSE LET suffix == Suffix(this.handlerBindObject, this.fullHandlerName)
          IN /\ pending' = Append(pending, Edit("bind", cursor, suffix, NoRow))
             /\ bindEdit' = Some([pos |-> cursor, text |-> suffix,
                                   name |-> this.fullHandlerName, prompt |-> prompt])
  /\ UNCHANGED <<buffer, buffer0, cursor, options, this, ih, prompt, userInput, cleaned,
                 calls, sessions, inserted, moves, scan, version, sha, dl>>

(***************************************************************************)
(* insertHandler, with getHandlerParams inlined at its two call sites.     *)
(* ih.pc names the request the chain is suspended on:                      *)
(*   "locClass"  getComponentElement(..., 'outward')                       *)
(*   "locFunc"   getComponentElement(..., 'inward')                        *)
(*   "defs"      vscode.executeDefinitionProvider                          *)
(*   "open"      workspace.openTextDocument                                *)
(*   "params"    getHandlerParams has returned, insertHandler resumes      *)
(* and how it ended: "inserted", "aborted" (returned without inserting),   *)
(* "rejected" (a host request failed).                                     *)
(***************************************************************************)
symbolPosition == this.triggerCharRange.end

InsertHandler ==
  /\ ih.pc = "idle"
  /\ ih' = [ih EXCEPT !.pc = "locClass", !.log = <<Issued("locClass")>>]
  /\ UNCHANGED <<buffer, buffer0, cursor, options, pending, this, prompt, userInput,
                 cleaned, filled, calls, bindEdit, sessions, inserted, moves, scan, version, sha, dl>>

TakesClassPathNever(classComponent) == FALSE

\* if (classComponent)
TakesClassPath(classComponent) == ~IsNone(classComponent)

ClassLocated ==
  /\ ih.pc = "locClass"
  /\ LET classComponent == getComponentElement(buffer, symbolPosition, "classOpen")
         next == IF TakesClassPath(classComponent) THEN "defs" ELSE "locFunc"
     IN ih' = [ih EXCEPT !.classComponent = classComponent,
                         !.version = version,
                         !.log = ih.log \o <<Returned("locClass"), Issued(next)>>,
                         !.pc = next]
  /\ UNCHANGED <<buffer, buffer0, cursor, options, pending, this, prompt, userInput,
                 cleaned, filled, calls, bindEdit, sessions, inserted, moves, scan, version, sha, dl>>

FunctionLocated ==
  /\ ih.pc = "locFunc"
  /\ ih' = [ih EXCEPT
              !.functionalComponent = getComponentElement(buffer, symbolPosition, "funcOpen"),
              !.version = version,
              !.log = ih.log \o <<Returned("locFunc"), Issued("defs")>>,
              !.pc = "defs"]
  /\ UNCHANGED <<buffer, buffer0, cursor, options, pending, this, prompt, userInput,
                 cleaned, filled, calls, bindEdit, sessions, inserted, moves, scan, version, sha, dl>>

\* getHandlerParams, from the answer of the definition provider on
DefinitionsReturned ==
  /\ ih.pc = "defs"
  /\ \E definitions \in DefinitionResults :
       LET antdDefinition == IF IsNone(definitions) THEN None ELSE FindAntd(Val(definitions))
       IN IF IsNone(antdDefinition)
          THEN ih' = [ih EXCEPT !.functionParams = None,
                                !.log = ih.log \o <<Returned("defs")>>,
                                !.pc = "params"]
          ELSE ih' = [ih EXCEPT !.antdDefinition = antdDefinition,
                                !.log = ih.log \o <<Returned("defs"), Issued("open")>>,
                                !.pc = "open"]
  /\ UNCHANGED <<buffer, buffer0, cursor, options, pending, this, prompt, userInput,
                 cleaned, filled, calls, bindEdit, sessions, inserted, moves, scan, version, sha, dl>>

DocumentOpened ==
  /\ ih.pc = "open"
  /\ \E opened \in BOOLEAN :
       IF opened
       THEN ih' = [ih EXCEPT !.functionParams = buildTsFromDts(Val(ih.antdDefinition).text),
                             !.log = ih.log \o <<Returned("open")>>,
                             !.pc = "params"]
       ELSE ih' = [ih EXCEPT !.log = ih.log \o <<Failed("open")>>, !.pc = "rejected"]
  /\ UNCHANGED <<buffer, buffer0, cursor, options, pending, this, prompt, userInput,
                 cleaned, filled, calls, bindEdit, sessions, inserted, moves, scan, version, sha, dl>>

HasStub(buf, name) ==
  \E l \in 1..Len(buf) : buf[l].kind = "stub" /\ buf[l].items = <<name>>

ReturnsEarlyOnEmpty ==
  IF TakesClassPath(ih.classComponent)
  THEN IsNone(ih.functionParams) \/ Val(ih.functionParams) = <<>>
  ELSE IsNone(ih.functionalComponent) \/ IsNone(ih.functionParams)
         \/ Val(ih.functionParams) = <<>>

ReturnsEarlyIfPresent ==
  \/ HasStub(buffer, this.fullHandlerName)
  \/ IF TakesClassPath(ih.classComponent)
     THEN IsNone(ih.functionParams)
     ELSE IsNone(ih.functionalComponent) \/ IsNone(ih.functionParams)

ReturnsEarlyNever ==
  IF TakesClassPath(ih.classComponent) THEN FALSE ELSE IsNone(ih.functionalComponent)

\* the two early returns of insertHandler
ReturnsEarly ==
  IF TakesClassPath(ih.classComponent)
  THEN IsNone(ih.functionParams)
  ELSE IsNone(ih.functionalComponent) \/ IsNone(ih.functionParams)

ParamsPassed == IF IsNone(ih.functionParams) THEN <<>> ELSE Val(ih.functionParams)

Call(fn, indent, node, edit) ==
  [fn |-> fn, indent |-> indent, node |-> node, symbolPosition |-> symbolPosition,
   fullHandlerName |-> this.fullHandlerName, handlerParams |-> ParamsPassed,
   prompt |-> prompt, edit |-> edit]

\* insertHandler resumes with the result of getHandlerParams
ParamsReturned ==
  /\ ih.pc = "params"
  /\ IF TakesClassPath(ih.classComponent)
     THEN LET node == Val(ih.classComponent)
              indent == countIndentsInNode(node, buffer, options)
              edit == insertStringToClassComponent(buffer, options, indent, node,
                                                   this.fullHandlerName, ParamsPassed)
          IN IF ReturnsEarly
             THEN /\ ih' = [ih EXCEPT !.indent = Some(indent), !.pc = "aborted"]
                  /\ UNCHANGED <<pending, calls, inserted>>
             ELSE /\ ih' = [ih EXCEPT
                             !.indent = Some(indent),
                             !.log = ih.log \o <<Called("insertStringToClassComponent")>>,
                             !.pc = "inserted"]
                  /\ pending' = Append(pending, edit)
                  /\ calls' = Append(calls, Call("insertStringToClassComponent", indent,
                                                 node, edit))
                  /\ inserted' = inserted + 1
     ELSE IF ReturnsEarly
          THEN /\ ih' = [ih EXCEPT !.pc = "aborted"]
               /\ UNCHANGED <<pending, calls, inserted>>
          ELSE LET node == Val(ih.functionalComponent)
                   indent == countIndentsInNode(node, buffer, options)
                   edit == insertStringToFunctionalComponent(buffer, options, indent, node,
                                                             this.fullHandlerName,
                                                             ParamsPassed)
               IN /\ ih' = [ih EXCEPT
                             !.indent = Some(indent),
                             !.log = ih.log \o <<Called("insertStringToFunctionalComponent")>>,
                             !.pc = "inserted"]
                  /\ pending' = Append(pending, edit)
                  /\ calls' = Append(calls, Call("insertStringToFunctionalComponent",
                                                 indent, node, edit))
                  /\ inserted' = inserted + 1
  /\ UNCHANGED <<buffer, buffer0, cursor, options, this, prompt, userInput, cleaned,
                 filled, bindEdit, sessions, moves, scan, version, sha, dl>>

(***************************************************************************)
(* The host and the user.                                                  *)
(***************************************************************************)
ApplyEdit ==
  /\ pending # <<>>
  /\ buffer' = ApplyTo(buffer, Head(pending))
  /\ cursor' = CursorAfter(cursor, buffer, Head(pending))
  /\ pending' = Tail(pending)
  /\ version' = version + 1
  /\ UNCHANGED <<buffer0, options, this, ih, prompt, userInput, cleaned, filled, calls,
                 bindEdit, sessions, inserted, moves, scan, sha, dl>>

MoveCursor ==
  /\ moves < MaxMoves
  /\ \E p \in CursorTargets(buffer) : p # cursor /\ cursor' = p
  /\ moves' = moves + 1
  /\ UNCHANGED <<buffer, buffer0, options, pending, this, ih, prompt, userInput, cleaned,
                 filled, calls, bindEdit, sessions, inserted, scan, version, sha, dl>>

IhEnded == ih.pc \in {"inserted", "aborted", "rejected"}

\* the user clears the attribute's value and types the trigger character after
\* the same attribute again, once the session before has run its course
NewSession ==
  /\ sessions < MaxSessions
  /\ IhEnded /\ prompt = "done" /\ cleaned /\ filled /\ pending = <<>>
  /\ \E kind \in InsertKinds :
       LET l == MarkupLine(buffer)
           range == Range(l, 2)
           doc == [buffer EXCEPT ![l + 1] = Markup(buffer[l + 1].ws, this.handlerName)]
       IN /\ buffer' = doc
          /\ buffer0' = doc
          /\ cursor' = range.end
          /\ this' = Constructor(range, this.handlerName, kind,
                                 CallerBindObject(doc, range.end))
  /\ ih' = IhIdle
  /\ prompt' = "idle"
  /\ userInput' = None
  /\ cleaned' = FALSE
  /\ filled' = FALSE
  /\ calls' = <<>>
  /\ bindEdit' = None
  /\ sessions' = sessions + 1
  /\ version' = 0
  /\ UNCHANGED <<options, pending, inserted, moves, scan, sha, dl>>

(***************************************************************************)
(* One session, in every order of its four methods and of the answers of   *)
(* the host.                                                               *)
(***************************************************************************)
Next ==
  \/ TryRiseInputBox
  \/ InputBoxReturns
  \/ CleanCompletionPrefix
  \/ TryFillCompletionBind
  \/ InsertHandler
  \/ ClassLocated
  \/ FunctionLocated
  \/ DefinitionsReturned
  \/ DocumentOpened
  \/ ParamsReturned
  \/ ApplyEdit
  \/ MoveCursor

Spec == Init /\ [][Next]_vars

(***************************************************************************)
(* Sessions one after another on the same buffer.                          *)
(***************************************************************************)
InitRepeat ==
  /\ Init
  /\ this.handlerName = onSelect
  /\ options = [insertSpaces |-> TRUE, tabSize |-> 4]
  /\ buffer \in {ClassDoc(<<SP, SP>>, onSelect), FuncDoc(<<SP, SP>>, onSelect)}

NextRepeat ==
  \/ TryRiseInputBox
  \/ InputBoxReturns
  \/ CleanCompletionPrefix
  \/ TryFillCompletionBind
  \/ InsertHandler
  \/ ClassLocated
  \/ FunctionLocated
  \/ DefinitionsReturned
  \/ DocumentOpened
  \/ ParamsReturned
  \/ ApplyEdit
  \/ NewSession

SpecRepeat == InitRepeat /\ [][NextRepeat]_vars

(***************************************************************************)
(* countIndentsInNode on its own, one loop iteration at a time, over every *)
(* body of at most MaxBodyLines lines whose leading whitespace is at most  *)
(* MaxLineLen characters.                                                  *)
(***************************************************************************)
WhiteSpaces == UNION {[1..k -> {SP, TAB}] : k \in 0..MaxLineLen}
BodyLines == {Line(kind, ws, <<>>) : kind \in {"text", "blank"}, ws \in WhiteSpaces}
Bodies == UNION {[1..k -> BodyLines] : k \in 0..MaxBodyLines}

InitIndent ==
  \E body \in Bodies, opts \in IndentOptions :
    /\ buffer = <<Line("classOpen", <<>>, <<>>)>> \o body
    /\ buffer0 = buffer
    /\ cursor = Pos(0, 0)
    /\ options = opts
    /\ pending = <<>>
    /\ this = Constructor(Range(0, 0), onSelect, "direct", THIS)
    /\ ih = [IhIdle EXCEPT !.pc = "params",
                           !.classComponent = Some(Node("classOpen", 0, Len(body))),
                           !.functionParams = Some(<<>>)]
    /\ prompt = "idle"
    /\ userInput = None
    /\ cleaned = FALSE
    /\ filled = FALSE
    /\ calls = <<>>
    /\ bindEdit = None
    /\ sessions = 1
    /\ inserted = 0
    /\ moves = 0
    /\ scan = [ScanIdle EXCEPT !.on = TRUE, !.line = 1]
    /\ version = 0
    /\ sha = ShaIdle
    /\ dl = DlIdle

ScanNode == Val(ih.classComponent)

\* one iteration of the for loop
ScanLine ==
  /\ scan.on /\ ~scan.returned
  /\ scan.line <= ScanNode.endLine
  /\ LET indentCount == countIndentsOfLine(LineText(buffer[scan.line + 1]), options)
     IN scan' = [scan EXCEPT !.indentCount = indentCount,
                             !.before = scan.nodeBodyIndent,
                             !.nodeBodyIndent = IndentStep(scan.nodeBodyIndent, indentCount),
                             !.line = scan.line + 1]
  /\ UNCHANGED <<buffer, buffer0, cursor, options, pending, this, ih, prompt, userInput,
                 cleaned, filled, calls, bindEdit, sessions, inserted, moves, version, sha, dl>>

\* return nodeBodyIndent
ScanReturn ==
  /\ scan.on /\ ~scan.returned
  /\ scan.line > ScanNode.endLine
  /\ scan' = [scan EXCEPT !.returned = TRUE]
  /\ UNCHANGED <<buffer, buffer0, cursor, options, pending, this, ih, prompt, userInput,
                 cleaned, filled, calls, bindEdit, sessions, inserted, moves, version, sha, dl>>

NextIndent ==
  \/ ScanLine
  \/ ScanReturn

SpecIndent == InitIndent /\ [][NextIndent]_vars

(***************************************************************************)
(* Properties.                                                             *)
(***************************************************************************)
Interactive == this.insertKind = "interactive"
Located == ~IsNone(ih.classComponent) \/ ~IsNone(ih.functionalComponent)
StubInserted == Len(calls) >= 1
BindInserted == ~IsNone(bindEdit)
DefaultName == addHandlerPrefix(this.handlerName)
StubRows(buf) == {l \in 1..Len(buf) : buf[l].kind = "stub"}
PendingStubs == {k \in 1..Len(pending) : pending[k].op = "stub"}

\* C1: a session applies at most one stub insertion and at most one binding
\* insertion, and an interactive session whose insertHandler and
\* tryFillCompletionBind have both run has applied both or neither.
C1_BothOrNeither ==
  /\ Len(calls) <= 1
  /\ Cardinality({k \in 1..Len(pending) : pending[k].op = "bind"}) <= 1
  /\ (Interactive /\ IhEnded /\ filled) => (StubInserted <=> BindInserted)

\* C2: after a resolution miss (no construct located, or getHandlerParams
\* returned null) insertHandler has called neither insertion and, once the host
\* has applied every edit of the session, the buffer is the buffer the session
\* started with.
C2_MissLeavesBufferUntouched ==
  (ih.pc = "aborted" /\ pending = <<>> /\ prompt # "pending")
    => (calls = <<>> /\ buffer = buffer0)

\* C3: once tryRiseInputBox has completed, fullHandlerName is the default
\* prefixed name in direct mode (and no prompt was shown), the default prefixed
\* name when the prompt was dismissed or answered with the empty string, and
\* the user's string otherwise; the stub and the binding issued after the
\* prompt carry that name, whatever the answer was.
C3_HandlerNaming ==
  /\ addHandlerPrefix(onSelect)
       = <<"h", "a", "n", "d", "l", "e", "O", "n", "S", "e", "l", "e", "c", "t">>
  /\ ~Interactive => (prompt # "pending" /\ IsNone(userInput))
  /\ prompt = "done" =>
       /\ ~Interactive => this.fullHandlerName = DefaultName
       /\ Interactive =>
            /\ ~IsNone(userInput)
            /\ LET answer == Val(userInput)
               IN IF IsNone(answer) THEN this.fullHandlerName = DefaultName
                  ELSE IF Val(answer) = EMPTY THEN this.fullHandlerName = DefaultName
                  ELSE this.fullHandlerName = Val(answer)
       /\ \A k \in 1..Len(calls) :
            calls[k].prompt = "done" => calls[k].fullHandlerName = this.fullHandlerName
       /\ (BindInserted /\ Val(bindEdit).prompt = "done")
            => Val(bindEdit).name = this.fullHandlerName

\* a dismissed prompt, after which the stub and the binding were both issued
\* under the default name
C3_Witness ==
  /\ Interactive /\ prompt = "done"
  /\ userInput = Some(None)
  /\ Len(calls) = 1 /\ calls[1].prompt = "done"
  /\ calls[1].fullHandlerName = addHandlerPrefix(this.handlerName)
  /\ BindInserted /\ Val(bindEdit).prompt = "done"

\* C4: in an interactive session tryFillCompletionBind inserts exactly
\* ={bindObject fullHandlerName} at the position the trigger range records
\* (either end of it: they are one place once the trigger character is gone),
\* wherever the cursor is by then; in a direct session it inserts nothing.
C4_BindAtTriggerCursor ==
  /\ ~Interactive => (~BindInserted /\ \A k \in 1..Len(pending) : pending[k].op # "bind")
  /\ (Interactive /\ filled) =>
       /\ BindInserted
       /\ Val(bindEdit).text
            = <<"=", "{">> \o this.handlerBindObject \o Val(bindEdit).name \o <<"}">>
       /\ Val(bindEdit).pos \in {this.triggerCharRange.start, this.triggerCharRange.end}

ScannedLines == {l \in (ScanNode.posLine + 1)..ScanNode.endLine : l < scan.line}
IndentOf(l) == countIndentsOfLine(LineText(buffer[l + 1]), options)
NonBlank(l) == buffer[l + 1].kind # "blank"

\* C6 as stated: the result is the least normalized indent over all non-blank
\* body lines (so 0 as soon as one of them starts at column 0), and 0 when
\* there is none.
C6_MinOverNonBlank ==
  scan.returned =>
    LET counts == {IndentOf(l) : l \in {k \in ScannedLines : NonBlank(k)}}
    IN scan.nodeBodyIndent = (IF counts = {} THEN 0 ELSE Least(counts))

\* C6, amended: the result is the least normalized indent over the body lines
\* whose normalized indent is positive (blank lines and lines at column 0 are
\* both skipped), and 0 when there is none; once positive, the running minimum
\* never grows and never returns to 0.
C6_MinOverIndented ==
  /\ scan.on =>
       LET counts == {IndentOf(l) : l \in {k \in ScannedLines : IndentOf(k) > 0}}
       IN /\ scan.nodeBodyIndent = (IF counts = {} THEN 0 ELSE Least(counts))
          /\ scan.before > 0 => (0 < scan.nodeBodyIndent /\ scan.nodeBodyIndent <= scan.before)
  /\ scan.returned =>
       scan.nodeBodyIndent = countIndentsInNode(ScanNode, buffer, options)

\* a body with a line at column 0 and an indented line: the result is the
\* indent of the indented line
C6_Witness ==
  /\ scan.returned
  /\ \E l, m \in ScannedLines :
       /\ NonBlank(l) /\ IndentOf(l) = 0
       /\ IndentOf(m) > 0 /\ scan.nodeBodyIndent = IndentOf(m)

\* C7: for the line read last, with n leading whitespace characters of which t
\* are tabs: -1 if the line is blank; n + t * (tabSize - 1) in space mode;
\* n minus the number of leading characters that are not tabs in tab mode.
C7_TabNormalization ==
  (scan.on /\ scan.line > ScanNode.posLine + 1) =>
    LET row == buffer[scan.line]
        n == Len(row.ws)
        t == Cardinality({i \in 1..n : row.ws[i] = TAB})
    IN scan.indentCount =
         (IF row.kind = "blank" THEN -1
          ELSE IF options.insertSpaces THEN n + t * (options.tabSize - 1)
          ELSE n - (n - t))

(***************************************************************************)
(* Parameter resolution and repeated sessions.                             *)
(***************************************************************************)
Resumed == ih.pc \in {"inserted", "aborted"}

\* C8: with a construct located and an empty parameter list resolved,
\* insertHandler calls the stub insertion exactly once and passes the empty
\* list; with a construct located, only a null result suppresses the call.
C8_EmptyIsNotNull ==
  /\ (Resumed /\ Located /\ ih.functionParams = Some(<<>>)) =>
       /\ ih.pc = "inserted"
       /\ Len(calls) = 1
       /\ calls[1].handlerParams = <<>>
  /\ (ih.pc = "aborted" /\ Located) => IsNone(ih.functionParams)
  /\ ih.pc = "inserted" =>
       /\ ~IsNone(ih.functionParams)
       /\ Len(calls) = 1
       /\ calls[1].handlerParams = Val(ih.functionParams)

\* a stub with no parameters, called for and applied to the buffer
C8_Witness ==
  /\ ih.pc = "inserted" /\ ih.functionParams = Some(<<>>)
  /\ Len(calls) = 1 /\ calls[1].handlerParams = <<>>
  /\ \E l \in StubRows(buffer) : buffer[l].params = <<>>

\* the declaration text the definition lookup led to cannot be parsed
Unresolved ==
  ~IsNone(ih.antdDefinition) /\ IsNone(buildTsFromDts(Val(ih.antdDefinition).text))

\* C9 as stated: when the resolver yields none for the declaration text, a
\* stub with an empty parameter list is still inserted into the located
\* construct.
C9_UnresolvedFallsBackToEmpty ==
  (Unresolved /\ Located /\ Resumed) =>
    /\ ih.pc = "inserted"
    /\ Len(calls) = 1
    /\ calls[1].handlerParams = <<>>

\* C9, amended: when the resolver yields none for the declaration text,
\* getHandlerParams returns null and insertHandler returns normally without
\* calling a stub insertion.
C9_UnresolvedAborts ==
  (Unresolved /\ ih.pc \in {"params", "inserted", "aborted", "rejected"}) =>
    /\ ih.pc # "rejected" => IsNone(ih.functionParams)
    /\ ih.pc \in {"params", "aborted", "rejected"}
    /\ calls = <<>>
    /\ PendingStubs = {} /\ StubRows(buffer) = {}

\* an unparsable declaration text, a located construct, and no stub
C9_Witness ==
  /\ Unresolved /\ Located
  /\ ih.pc = "aborted"
  /\ calls = <<>>

\* C10 (under SpecRepeat): nothing looks for a handler of the same name: a
\* session that located a construct and resolved a parameter list inserts its
\* stub also when the buffer already holds a stub of that name, and the stubs
\* in the buffer, with those the host has yet to apply, are as many as the
\* sessions that got that far.
C10_NoDedup ==
  /\ Cardinality(StubRows(buffer)) + Cardinality(PendingStubs) = inserted
  /\ inserted <= sessions
  /\ (Resumed /\ Located /\ ~IsNone(ih.functionParams)) => ih.pc = "inserted"

\* two sessions, two stubs of the same name
C10_Witness ==
  /\ sessions = 2 /\ inserted = 2 /\ pending = <<>>
  /\ \E l, m \in StubRows(buffer) : l # m /\ buffer[l].items = buffer[m].items

(***************************************************************************)
(* Ordering of the session's edits and requests.                           *)
(***************************************************************************)
PendingBinds == {k \in 1..Len(pending) : pending[k].op = "bind"}

\* C11: once tryFillCompletionBind has returned, the binding edit it made is
\* applied to the buffer, so the host never holds the binding edit unapplied
\* together with a later edit of the session.
C11_BindAppliedOnReturn ==
  /\ filled => PendingBinds = {}
  /\ \A k \in PendingBinds : k = Len(pending)

At(e) == {k \in 1..Len(ih.log) : ih.log[k] = e}
Before(e1, e2) == \A j \in At(e2) : \E i \in At(e1) : i < j
InsertCalls == {k \in 1..Len(ih.log) : ih.log[k].ev = "called"}

\* C12: one run of insertHandler calls at most one of the two stub insertions,
\* at most once; the inward search is made only after the outward search has
\* returned nothing; and once a class component is found the function form is
\* never searched nor inserted, whatever getHandlerParams returns.
C12_OneConstructClassFirst ==
  /\ Len(calls) <= 1
  /\ Cardinality(InsertCalls) = Len(calls)
  /\ Before(Returned("locClass"), Issued("locFunc"))
  /\ At(Issued("locFunc")) # {} => IsNone(ih.classComponent)
  /\ ~IsNone(ih.classComponent) =>
       /\ IsNone(ih.functionalComponent)
       /\ At(Called("insertStringToFunctionalComponent")) = {}
       /\ (IhEnded /\ IsNone(ih.functionParams)) => calls = <<>>
  /\ At(Called("insertStringToClassComponent")) # {} => ~IsNone(ih.classComponent)

C12_Witness ==
  /\ ih.pc = "inserted"
  /\ IsNone(ih.classComponent)
  /\ calls[1].fn = "insertStringToFunctionalComponent"
  /\ pending = <<>>

\* the other case of C12: class found, parameters unresolved, run ended
C12_NoFallback ==
  /\ ih.pc = "aborted"
  /\ ~IsNone(ih.classComponent)
  /\ IsNone(ih.functionParams)

\* from the locate that found the construct until the stub edit is applied
StubInFlight ==
  /\ Located
  /\ \/ ih.pc \in {"defs", "open", "params"}
     \/ ih.pc = "inserted" /\ PendingStubs # {}

\* C13: from the moment insertHandler has located the construct until its
\* stub insertion is applied, no edit is applied to the buffer: the document
\* is still at the version the locate saw.
C13_NoStaleView == StubInFlight => version = ih.version

Requests == {"locClass", "locFunc", "defs", "open"}
Outstanding ==
  {r \in Requests : At(Issued(r)) # {} /\ At(Returned(r)) = {} /\ At(Failed(r)) = {}}
Inserts == {Called("insertStringToClassComponent"),
            Called("insertStringToFunctionalComponent")}

\* C14: insertHandler has at most one host request outstanding at any time;
\* the definition document is opened only after the definition lookup has
\* returned a location inside the antd module; and a stub insertion is called
\* only after the locate of its path and the parameter resolution have
\* returned, with no request left outstanding.
C14_SequentialChain ==
  /\ Cardinality(Outstanding) <= 1
  /\ Before(Returned("defs"), Issued("open"))
  /\ At(Issued("open")) # {} =>
       /\ ~IsNone(ih.antdDefinition)
       /\ matchAntdModule(Val(ih.antdDefinition).path)
  /\ Before(Returned("locClass"), Called("insertStringToClassComponent"))
  /\ Before(Returned("locFunc"), Called("insertStringToFunctionalComponent"))
  /\ \A c \in Inserts :
       /\ Before(Returned("defs"), c)
       /\ Before(Returned("open"), c)
       /\ At(c) # {} => Outstanding = {}

C14_Witness ==
  /\ ih.pc = "inserted"
  /\ At(Returned("locFunc")) # {}
  /\ At(Returned("open")) # {}
  /\ Len(ih.log) = 9

BindOf(name) == <<"=", "{">> \o this.handlerBindObject \o name \o <<"}">>
StubAfterPrompt == StubInserted /\ calls[1].prompt = "done"
BindAfterPrompt == BindInserted /\ Val(bindEdit).prompt = "done"

\* C15: when the input box has returned before the stub insertion is called
\* and before tryFillCompletionBind runs, the binding expression names the
\* handler the stub declares; a stub insertion or a binding made earlier
\* carries the default name the constructor assigned.
C15_SameName ==
  /\ (StubAfterPrompt /\ BindAfterPrompt) =>
       Val(bindEdit).text = BindOf(calls[1].fullHandlerName)
  /\ (StubInserted /\ ~StubAfterPrompt) => calls[1].fullHandlerName = DefaultName
  /\ (BindInserted /\ ~BindAfterPrompt) => Val(bindEdit).text = BindOf(DefaultName)

C15_Witness ==
  /\ StubAfterPrompt /\ BindAfterPrompt
  /\ calls[1].fullHandlerName = <<"m", "y", "F", "n">>
  /\ pending = <<>>

\* the other case of C15: the binding was made while the input box was open
C15_NamesDiffer ==
  /\ StubAfterPrompt /\ BindInserted /\ ~BindAfterPrompt
  /\ Val(bindEdit).text # BindOf(calls[1].fullHandlerName)

(***************************************************************************)
(* buildShaMap.  sha.pc: "root" awaiting the listing of /components, "all"  *)
(* awaiting Promise.all, "resolved", "rejected".  sha.waiting holds the     *)
(* components whose folder listing is outstanding.                          *)
(***************************************************************************)
ComponentPathsAll(contentData) == contentData

\* contentData.filter(c => !IGNORED_COMPONENTS.includes(c.name)).map(c => c.name)
ComponentPaths(contentData) == {c \in contentData : c \notin IGNORED_COMPONENTS}

\* data.find(file => file.name === name)
Find(data, name) ==
  IF \E file \in data : file.name = name
  THEN Some(CHOOSE file \in data : file.name = name)
  ELSE None

\* the object literal of the try block; `find(...)!.sha` throws on undefined
\* and the catch leaves the map as it was
ShaEntry(data) ==
  LET en == Find(data, EN_MD_NAME)
      zh == Find(data, ZH_MD_NAME)
  IN IF IsNone(en) \/ IsNone(zh) THEN None
     ELSE Some([enSha |-> Val(en).sha, zhSha |-> Val(zh).sha])

BuildShaMap ==
  /\ sha.pc = "idle"
  /\ sha' = [sha EXCEPT !.pc = "root"]
  /\ UNCHANGED <<buffer, buffer0, cursor, options, pending, this, ih, prompt, userInput,
                 cleaned, filled, calls, bindEdit, sessions, inserted, moves, scan,
                 version, dl>>

RootReturned ==
  /\ sha.pc = "root"
  /\ \E tagContentRes \in RootResponses :
       IF tagContentRes.kind # "array"
       THEN sha' = [sha EXCEPT !.pc = "rejected"]
       ELSE sha' = [sha EXCEPT !.contentData = tagContentRes.data,
                               !.waiting = ComponentPaths(tagContentRes.data),
                               !.pc = "all"]
  /\ UNCHANGED <<buffer, buffer0, cursor, options, pending, this, ih, prompt, userInput,
                 cleaned, filled, calls, bindEdit, sessions, inserted, moves, scan,
                 version, dl>>

\* one callback of componentPaths.map resumes; Promise.all rejects with the
\* first rejection, the other callbacks still run
FolderReturned ==
  /\ sha.pc \in {"all", "rejected"}
  /\ \E name \in sha.waiting :
       \E folderRes \in FolderResponses(name) :
         sha' = [sha EXCEPT
                   !.waiting = sha.waiting \ {name},
                   !.folderRes[name] = folderRes,
                   !.shaMap[name] = IF folderRes.kind = "array"
                                    THEN ShaEntry(folderRes.data)
                                    ELSE sha.shaMap[name],
                   !.pc = IF folderRes.kind = "error" THEN "rejected" ELSE sha.pc]
  /\ UNCHANGED <<buffer, buffer0, cursor, options, pending, this, ih, prompt, userInput,
                 cleaned, filled, calls, bindEdit, sessions, inserted, moves, scan,
                 version, dl>>

\* await Promise.all(promises); return shaMap
AllReturned ==
  /\ sha.pc = "all"
  /\ sha.waiting = {}
  /\ sha' = [sha EXCEPT !.pc = "resolved", !.result = Some(sha.shaMap)]
  /\ UNCHANGED <<buffer, buffer0, cursor, options, pending, this, ih, prompt, userInput,
                 cleaned, filled, calls, bindEdit, sessions, inserted, moves, scan,
                 version, dl>>

IdleSession ==
  /\ buffer = BareDoc(onSelect)
  /\ buffer0 = buffer
  /\ cursor = Pos(0, 0)
  /\ options = [insertSpaces |-> TRUE, tabSize |-> 4]
  /\ pending = <<>>
  /\ this = Constructor(Range(0, 0), onSelect, "direct", THIS)
  /\ ih = IhIdle
  /\ prompt = "idle"
  /\ userInput = None
  /\ cleaned = FALSE
  /\ filled = FALSE
  /\ calls = <<>>
  /\ bindEdit = None
  /\ sessions = 0
  /\ inserted = 0
  /\ moves = 0
  /\ scan = ScanIdle
  /\ version = 0

InitSha == IdleSession /\ sha = ShaIdle /\ dl = DlIdle

NextSha ==
  \/ BuildShaMap
  \/ RootReturned
  \/ FolderReturned
  \/ AllReturned

SpecSha == InitSha /\ [][NextSha]_vars

Listed(name) == name \in sha.contentData /\ name \notin IGNORED_COMPONENTS
HasBoth(name) ==
  /\ sha.folderRes[name].kind = "array"
  /\ \E file \in sha.folderRes[name].data : file.name = EN_MD_NAME
  /\ \E file \in sha.folderRes[name].data : file.name = ZH_MD_NAME
Answered == {n \in ContentNames : sha.folderRes[n].kind # "none"}

\* C16: the folder listings are all issued before any is awaited; buildShaMap
\* resolves only when every listing has been answered, with a map that holds
\* a name exactly when the name is listed, not ignored, and its folder holds
\* both Markdown files, each entry carrying the sha of both; a map under
\* construction never holds an entry with one sha; and when a listing fails
\* buildShaMap rejects and returns no map.
C16_ShaMapComplete ==
  /\ sha.pc \in {"all", "resolved"} =>
       sha.waiting \cup Answered = {n \in ContentNames : Listed(n)}
  /\ sha.pc = "resolved" =>
       /\ sha.waiting = {}
       /\ ~IsNone(sha.result)
       /\ \A n \in ContentNames :
            ~IsNone(Val(sha.result)[n]) <=> (Listed(n) /\ HasBoth(n))
  /\ \A n \in ContentNames :
       ~IsNone(sha.shaMap[n]) =>
         /\ HasBoth(n)
         /\ Val(sha.shaMap[n]).enSha = File(n, EN_MD_NAME).sha
         /\ Val(sha.shaMap[n]).zhSha = File(n, ZH_MD_NAME).sha
  /\ (\E n \in ContentNames : sha.folderRes[n].kind = "error") =>
       sha.pc = "rejected" /\ IsNone(sha.result)
  /\ sha.pc # "resolved" => IsNone(sha.result)

C16_Witness ==
  /\ sha.pc = "resolved"
  /\ sha.contentData = ContentNames
  /\ ~IsNone(Val(sha.result)["alert"])
  /\ sha.folderRes["button"] = ArrayRes({File("button", EN_MD_NAME)})
  /\ sha.folderRes["card"] = ObjectRes

\* the listings are outstanding together
C16_Concurrent == sha.pc = "all" /\ Cardinality(sha.waiting) = 3

(***************************************************************************)
(* downloadByShaMap and downloadMdFiles.  dl.stage[c] is where the callback *)
(* of component c is suspended: "enBlob", "zhBlob" (octokit.git.getBlob),   *)
(* "enWrite", "zhWrite" (outputFile), or how its promise settled:           *)
(* "resolved", "rejected".  dl.status[c][l] is the outcome of the download  *)
(* of one file: "none", "pending", "ok", "failed".                          *)
(***************************************************************************)
LangOf(stage) == IF stage \in {"enBlob", "enWrite"} THEN "en" ELSE "zh"
BlobStage(lang) == IF lang = "en" THEN "enBlob" ELSE "zhBlob"
WriteStage(lang) == IF lang = "en" THEN "enWrite" ELSE "zhWrite"

AfterDownloadUncaught(lang, ok) ==
  IF ~ok THEN "rejected" ELSE IF lang = "en" THEN "zhBlob" ELSE "resolved"

\* where the callback goes when downloadMdFiles(lang) has returned: the catch
\* of downloadMdFiles swallows the failure, so the outcome does not matter
AfterDownload(lang, ok) == IF lang = "en" THEN "zhBlob" ELSE "resolved"

\* downloadMdFiles(lang) of component c has ended; the callback goes on
Ended(c, lang, ok) ==
  LET next == AfterDownload(lang, ok)
      d1 == [dl EXCEPT !.status[c][lang] = IF ok THEN "ok" ELSE "failed",
                       !.stage[c] = next]
  IN IF next = "zhBlob"
     THEN [d1 EXCEPT !.status[c]["zh"] = "pending",
                     !.attempts[c]["zh"] = dl.attempts[c]["zh"] + 1]
     ELSE d1

\* Object.entries(shaMap).map(async ...): every callback runs up to its first
\* await, the getBlob of the English file
DownloadByShaMap ==
  /\ dl.pc = "idle"
  /\ dl' = [dl EXCEPT
              !.pc = "called",
              !.promises = dl.shaMap,
              !.stage = [n \in MapNames |-> IF n \in dl.shaMap THEN "enBlob" ELSE "none"],
              !.status = [n \in MapNames |->
                            IF n \in dl.shaMap
                            THEN [l \in Langs |-> IF l = "en" THEN "pending" ELSE "none"]
                            ELSE dl.status[n]],
              !.attempts = [n \in MapNames |->
                              IF n \in dl.shaMap
                              THEN [l \in Langs |-> IF l = "en" THEN 1 ELSE 0]
                              ELSE dl.attempts[n]]]
  /\ UNCHANGED <<buffer, buffer0, cursor, options, pending, this, ih, prompt, userInput,
                 cleaned, filled, calls, bindEdit, sessions, inserted, moves, scan,
                 version, sha>>

\* getBlob returns: fulfilled and the directory is made and outputFile called,
\* or rejected, or fulfilled and ensureDirSync / Base64.decode throws
BlobReturned ==
  /\ \E c \in MapNames :
       /\ dl.stage[c] \in {"enBlob", "zhBlob"}
       /\ \E outcome \in {"fulfilled", "rejected", "throws"} :
            dl' = IF outcome = "fulfilled"
                  THEN [dl EXCEPT !.stage[c] = WriteStage(LangOf(dl.stage[c]))]
                  ELSE Ended(c, LangOf(dl.stage[c]), FALSE)
  /\ UNCHANGED <<buffer, buffer0, cursor, options, pending, this, ih, prompt, userInput,
                 cleaned, filled, calls, bindEdit, sessions, inserted, moves, scan,
                 version, sha>>

\* outputFile returns
WriteReturned ==
  /\ \E c \in MapNames :
       /\ dl.stage[c] \in {"enWrite", "zhWrite"}
       /\ \E ok \in BOOLEAN : dl' = Ended(c, LangOf(dl.stage[c]), ok)
  /\ UNCHANGED <<buffer, buffer0, cursor, options, pending, this, ih, prompt, userInput,
                 cleaned, filled, calls, bindEdit, sessions, inserted, moves, scan,
                 version, sha>>

InitDownload ==
  /\ IdleSession
  /\ sha = ShaIdle
  /\ \E shaMap \in SUBSET MapNames : dl = [DlIdle EXCEPT !.shaMap = shaMap]

NextDownload ==
  \/ DownloadByShaMap
  \/ BlobReturned
  \/ WriteReturned

\* every request the host has accepted returns
SpecDownload ==
  /\ InitDownload
  /\ [][NextDownload]_vars
  /\ WF_vars(BlobReturned)
  /\ WF_vars(WriteReturned)

Finished(status) == status \in {"ok", "failed"}
DownloadsSafe ==
  /\ dl.pc = "called" => dl.promises = dl.shaMap
  /\ \A c \in MapNames :
       /\ dl.stage[c] # "rejected"
       /\ \A l \in Langs : dl.attempts[c][l] <= 1
       /\ dl.status[c]["zh"] # "none" => Finished(dl.status[c]["en"])
       /\ (c \in dl.shaMap /\ Finished(dl.status[c]["en"])) => dl.attempts[c]["zh"] = 1
AllDownloaded ==
  \A c \in dl.shaMap :
    /\ dl.stage[c] = "resolved"
    /\ \A l \in Langs : Finished(dl.status[c][l]) /\ dl.attempts[c][l] = 1

\* C17: downloadByShaMap returns one promise per entry; the Chinese file of a
\* component is requested only once the download of its English file has
\* ended, and is requested then whether that download succeeded or failed; no
\* promise is ever rejected; and when every request returns, every promise
\* resolves with both files of every component attempted exactly once.
C17_EveryFileAttempted ==
  /\ []DownloadsSafe
  /\ (dl.pc = "called") ~> AllDownloaded

C17_Witness ==
  /\ dl.pc = "called"
  /\ dl.shaMap = MapNames
  /\ AllDownloaded
  /\ dl.status["alert"] = [l \in Langs |-> IF l = "en" THEN "failed" ELSE "ok"]
  /\ dl.status["button"] = [l \in Langs |-> "failed"]
  /\ dl.status["card"] = [l \in Langs |-> "ok"]

====
